---- MODULE Spec2Model ----
(***************************************************************************)
(* Model of the unified invoke service of FinceptTerminal                  *)
(* (platform adapter: invoke / invokeWeb and the response normalisation).  *)
(***************************************************************************)
EXTENDS Integers, Sequences, FiniteSets, TLC

(***************************************************************************)
(* Bounds of the model.                                                    *)
(***************************************************************************)
MaxCalls == 2
MaxSubs == 1
MaxEmits == 1
MaxUnlistens == 2
MaxSegments == 3
MaxSegLen == 2
MaxTicks == 10

CallIds == 1..MaxCalls
SubIds == 1..MaxSubs

(***************************************************************************)
(* JavaScript values.  A value is a record [ty, v]: its type and its       *)
(* literal.  Only what the service inspects is kept: truthiness, identity  *)
(* with false / undefined, and the String() coercion done by new Error().  *)
(***************************************************************************)
JsVal(ty, v) == [ty |-> ty, v |-> v]

Undefined == JsVal("undefined", "undefined")
Null      == JsVal("null", "null")
False     == JsVal("boolean", "false")
True      == JsVal("boolean", "true")
Zero      == JsVal("number", "0")
Five      == JsVal("number", "5")
Str(s)    == JsVal("string", s)
EmptyStr  == Str("")
NotFound  == Str("symbol not found")
EmptyArr  == JsVal("array", "[]")
Quote     == JsVal("object", "{symbol,price}")

\* JS truthiness: undefined, null, false, 0 and "" are falsy; objects and
\* arrays (even empty ones) are truthy.
Truthy(x) == x \notin {Undefined, Null, False, Zero, EmptyStr}

\* String(x), as applied by `new Error(x)` to its message argument.
JsString(x) ==
    CASE x.ty = "string" -> x
      [] x.ty = "array"  -> Str("")
      [] x.ty = "object" -> Str("[object Object]")
      [] OTHER           -> Str(x.v)

(***************************************************************************)
(* A parsed JSON document as the normaliser sees it: the value itself and  *)
(* what reading its properties error / success / data yields (Undefined    *)
(* when the property is absent; primitives and arrays have none of them).  *)
(***************************************************************************)
Json(val, error, success, data) ==
    [val |-> val, error |-> error, success |-> success, data |-> data]

Bare(x) == Json(x, Undefined, Undefined, Undefined)

\* Error objects: thrown values, carried like any other value.
ErrorObj(name, message) == Bare(JsVal(name, message))

Resolved(x) == [kind |-> "resolved", value |-> x]
Rejected(e) == [kind |-> "rejected", value |-> e]
Pending     == [kind |-> "pending", value |-> Bare(Undefined)]

\* `new Error(x)`: the message is String(x).
NewError(x) == ErrorObj("Error", JsString(x).v)

\* Reading a property of null throws a TypeError; of anything else, it yields
\* the property (undefined when absent).
CanReadProps(result) == result.val # Null

\* a || b
Or(a, b) == IF Truthy(a) THEN a ELSE b

\* mutant: tests `result.data` for truthiness instead of `!== undefined`
NormalizeLoose(result) ==
    IF ~CanReadProps(result)
    THEN Rejected(ErrorObj("TypeError", "Cannot read properties of null"))
    ELSE IF Truthy(result.error) \/ result.success = False
    THEN Rejected(NewError(Or(result.error, Str("Unknown error"))))
    ELSE IF Truthy(result.data) THEN Resolved(Bare(result.data))
    ELSE Resolved(result)

\* mutant: a success flag of true returns before the error marker is looked at
NormalizeSuccessWins(result) ==
    IF ~CanReadProps(result)
    THEN Rejected(ErrorObj("TypeError", "Cannot read properties of null"))
    ELSE IF result.success = True /\ result.data # Undefined
    THEN Resolved(Bare(result.data))
    ELSE IF Truthy(result.error) \/ result.success = False
    THEN Rejected(NewError(Or(result.error, Str("Unknown error"))))
    ELSE IF result.data # Undefined THEN Resolved(Bare(result.data))
    ELSE Resolved(result)

\* mutant: only the error marker is tested, not `success === false`
NormalizeErrorOnly(result) ==
    IF ~CanReadProps(result)
    THEN Rejected(ErrorObj("TypeError", "Cannot read properties of null"))
    ELSE IF Truthy(result.error)
    THEN Rejected(NewError(result.error))
    ELSE IF result.data # Undefined THEN Resolved(Bare(result.data))
    ELSE Resolved(result)

\* mutant: the failed-flag statement has no fallback message
NormalizeSplitNoFallback(result) ==
    IF ~CanReadProps(result)
    THEN Rejected(ErrorObj("TypeError", "Cannot read properties of null"))
    ELSE IF Truthy(result.error)
    THEN Rejected(NewError(result.error))
    ELSE IF result.success = False
    THEN Rejected(NewError(result.error))
    ELSE IF result.data # Undefined THEN Resolved(Bare(result.data))
    ELSE Resolved(result)

\* services/invoke.ts: invokeWeb after `const result = await response.json()`,
\* with the error marker and the failed flag tested in two statements.
NormalizeSplit(result) ==
    IF ~CanReadProps(result)
    THEN Rejected(ErrorObj("TypeError", "Cannot read properties of null"))
    ELSE IF Truthy(result.error)
    THEN Rejected(NewError(result.error))
    ELSE IF result.success = False
    THEN Rejected(NewError(Or(result.error, Str("Unknown error"))))
    ELSE IF result.data # Undefined THEN Resolved(Bare(result.data))
    ELSE Resolved(result)

\* invokeWeb, after `const result = await response.json()`.
Normalize(result) ==
    IF ~CanReadProps(result)
    THEN Rejected(ErrorObj("TypeError", "Cannot read properties of null"))
    ELSE IF Truthy(result.error) \/ result.success = False
    THEN Rejected(NewError(Or(result.error, Str("Unknown error"))))
    ELSE IF result.data # Undefined THEN Resolved(Bare(result.data))
    ELSE Resolved(result)

(***************************************************************************)
(* The transports.                                                         *)
(***************************************************************************)
API_BASE == "/api"

\* What invokeWeb hands to fetch: POST `${API_BASE}/rpc`, body {cmd, args}.
HttpRequest(cmd, args) ==
    [via |-> "POST", to |-> API_BASE \o "/rpc", cmd |-> cmd, args |-> args]

\* mutant: the argument map is not forwarded
IpcRequestNoArgs(cmd, args) ==
    [via |-> "ipc", to |-> "@tauri-apps/api/core", cmd |-> cmd, args |-> {}]

\* What invoke hands to the in-process channel: tauriInvoke(cmd, args).
IpcRequest(cmd, args) ==
    [via |-> "ipc", to |-> "@tauri-apps/api/core", cmd |-> cmd, args |-> args]

NoRequest == [via |-> "none", to |-> "", cmd |-> "", args |-> {}]

\* An HTTP exchange as the server (or the network) decides it: fetch either
\* fails (net = "failed") or yields a response with a status and a body that
\* is a JSON document (parses) or is not.
HttpResponse(net, status, parses, json) ==
    [net |-> net, status |-> status, parses |-> parses, json |-> json]

NetworkFailure == HttpResponse("failed", 0, FALSE, Bare(Undefined))
NoResponse     == HttpResponse("none", 0, FALSE, Bare(Undefined))

\* mutant: only server errors count as failures
OkBelow500(response) == response.status \in 200..499

\* response.ok
Ok(response) == response.status \in 200..299

(***************************************************************************)
(* Inputs.                                                                 *)
(***************************************************************************)
Requests ==
    { [cmd |-> "get_market_quote", args |-> {<<"symbol", "AAPL">>}],
      [cmd |-> "db_get_setting",   args |-> {<<"key", "theme">>}] }

Statuses == {200, 201, 404, 500}

Values == {Null, False, True, Zero, Five, EmptyStr, NotFound, EmptyArr, Quote}

\* Every body: the non-object JSON values, and the objects with each
\* combination of error / success / data present or absent.
Bodies ==
    { Bare(x) : x \in Values \ {Quote} } \cup
    { Json(Quote, e, s, d) : e \in Values \cup {Undefined},
                             s \in {Undefined, True, False, Zero},
                             d \in Values \cup {Undefined} }

Responses ==
    {NetworkFailure} \cup
    { HttpResponse("ok", st, TRUE, b) : st \in Statuses, b \in Bodies } \cup
    { HttpResponse("ok", st, FALSE, Bare(Undefined)) : st \in Statuses }

\* What the in-process channel can do: return any value, raise any value.
Raised == {Bare(NotFound), ErrorObj("Error", "command failed"), Bare(Quote)}

Completions ==
    { Resolved(b) : b \in Bodies } \cup { Rejected(e) : e \in Raised }

\* The representative answers used when several calls run concurrently.
SampleBodies ==
    { Json(Quote, Undefined, True, Five),
      Json(Quote, NotFound, False, Undefined),
      Bare(Null) }

SampleResponses ==
    {NetworkFailure} \cup
    { HttpResponse("ok", st, TRUE, b) : st \in {200, 500}, b \in SampleBodies } \cup
    { HttpResponse("ok", 200, FALSE, Bare(Undefined)) }

SampleCompletions ==
    { Resolved(b) : b \in SampleBodies } \cup { Rejected(Bare(NotFound)) }

(***************************************************************************)
(* State.                                                                  *)
(***************************************************************************)
VARIABLES
    IS_TAURI,   \* the environment fact
    pc,         \* pc[i]: where call i stands
    request,    \* request[i]: the (cmd, args) invoke was called with
    wire,       \* wire[i]: what call i handed to its transport
    response,   \* response[i]: the HTTP exchange of call i
    ipc,        \* ipc[i]: how the channel call of call i completed
    parsed,     \* parsed[i]: response.json() was called for call i
    outcome,    \* outcome[i]: the promise invoke returned for call i
    settles,    \* settles[i]: times that promise was settled
    invokes,    \* calls of invoke so far
    posts,      \* HTTP POSTs issued so far
    ipcs        \* channel calls issued so far

VARIABLES
    hostMarker, \* '__TAURI__' in window, now
    IS_WEB,     \* the exported negation of the environment fact
    subs,       \* subs[s]: subscription s made through listen
    inflight,   \* inflight[s]: deliveries to s the native event system holds
    handled,    \* handled[s]: times the handler of s was invoked
    emits,      \* the event names emit was called with, in order
    capability, \* the last capability call and how it completed
    pathCall,   \* the last joinPath call and what it resolved to
    dlg,        \* the openDialog call: its input element, flags and promise
    now,        \* the clock, in ms
    mounted,        \* WarRoomMode is mounted
    mode,           \* the interface mode
    activeView,     \* WarRoomMode state
    carouselEnabled,
    userActive,
    progress,       \* in thirds: 3 * the progress value
    intervalRef,    \* WarRoomMode refs: the timer id they hold, or NoTimer
    progressRef,
    idleTimerRef,
    timers,         \* the live timers of the page
    sinceMove,      \* ms since the last mouse move (up to IDLE_TIMEOUT), -1 if none
    sinceRotation   \* ms since the last rotation (up to the interval), -1 if none

events == <<subs, inflight, handled, emits>>

\* The state of the component.
roomState == <<activeView, carouselEnabled, userActive, progress>>

\* The timers of the page and the refs of the component that hold their ids.
roomTimers == <<intervalRef, progressRef, idleTimerRef, timers>>

room == <<mounted, mode, roomState, roomTimers, sinceMove, sinceRotation>>

rest == <<pathCall, dlg, now, room>>

facade == <<hostMarker, IS_WEB, events, capability, rest>>

vars == <<IS_TAURI, pc, request, wire, response, ipc, parsed, outcome,
          settles, invokes, posts, ipcs, facade>>

invokeVars == <<pc, request, wire, response, ipc, parsed, outcome,
                settles, invokes, posts, ipcs>>

adapter == <<IS_TAURI, invokeVars, hostMarker, IS_WEB, events, capability>>

NoCall == [cmd |-> "", args |-> {}]

\* A subscription slot: nothing subscribed yet.
NoSub ==
    [event |-> "", state |-> "none", native |-> FALSE, unlistens |-> 0,
     threw |-> FALSE]

\* A capability call: the operation, its argument, which implementation ran
\* and the promise it returned.
Capability(op, arg, by, result) ==
    [op |-> op, arg |-> arg, by |-> by, result |-> result]

NoCapability == Capability("none", "", "none", Pending)

\* A joinPath call: its segments (strings are sequences of characters), which
\* implementation ran and the string it resolved to.
PathCall(args, by, result) == [args |-> args, by |-> by, result |-> result]

NoPathCall == PathCall(<<>>, "none", <<>>)

\* What the promise of openDialog holds: nothing yet, null, one name or a
\* list of names.
DialogResult(kind, names) == [kind |-> kind, names |-> names]

DialogPending == DialogResult("pending", <<>>)
DialogNull    == DialogResult("null", <<>>)

\* openDialog not called yet.
NoDialog ==
    [by |-> "none", multiple |-> FALSE, accept |-> "", listener |-> FALSE,
     timer |-> "none", deadline |-> 0, focusAt |-> 0, resolved |-> FALSE,
     files |-> <<>>, changed |-> FALSE, picker |-> "none",
     promise |-> DialogPending]

\* A timer of the page: its id, what it runs and the ms left until it is due.
Timer(id, kind, left) == [id |-> id, kind |-> kind, left |-> left]

\* A ref that holds no timer id (null); timer ids are positive.
NoTimer == 0

\* The module is loaded in a page (`typeof window !== 'undefined'`), so the
\* environment fact is whether the host marker is on the window at that time.
Init ==
    /\ hostMarker \in BOOLEAN
    /\ IS_TAURI = hostMarker
    /\ IS_WEB = ~IS_TAURI
    /\ subs = [s \in SubIds |-> NoSub]
    /\ inflight = [s \in SubIds |-> 0]
    /\ handled = [s \in SubIds |-> 0]
    /\ emits = <<>>
    /\ capability = NoCapability
    /\ pathCall = NoPathCall
    /\ dlg = NoDialog
    /\ now = 0
    /\ mounted = FALSE
    /\ mode = "warroom"
    /\ activeView = "dashboard"
    /\ carouselEnabled = TRUE
    /\ userActive = FALSE
    /\ progress = 0
    /\ intervalRef = NoTimer /\ progressRef = NoTimer /\ idleTimerRef = NoTimer
    /\ timers = {}
    /\ sinceMove = -1
    /\ sinceRotation = -1
    /\ pc = [i \in CallIds |-> "idle"]
    /\ request = [i \in CallIds |-> NoCall]
    /\ wire = [i \in CallIds |-> NoRequest]
    /\ response = [i \in CallIds |-> NoResponse]
    /\ ipc = [i \in CallIds |-> Pending]
    /\ parsed = [i \in CallIds |-> FALSE]
    /\ outcome = [i \in CallIds |-> Pending]
    /\ settles = [i \in CallIds |-> 0]
    /\ invokes = 0
    /\ posts = 0
    /\ ipcs = 0

(***************************************************************************)
(* Steps of the code.                                                      *)
(***************************************************************************)
\* mutant: a failure is logged and the promise is never rejected
SettleForgetsReject(i, o) ==
    /\ outcome' = [outcome EXCEPT ![i] = IF o.kind = "rejected" THEN @ ELSE o]
    /\ settles' = [settles EXCEPT ![i] = IF o.kind = "rejected" THEN @ ELSE @ + 1]
    /\ pc' = [pc EXCEPT ![i] = "settled"]

\* The promise of call i settles with completion o (a return or a throw of
\* the async function).
Settle(i, o) ==
    /\ outcome' = [outcome EXCEPT ![i] = o]
    /\ settles' = [settles EXCEPT ![i] = @ + 1]
    /\ pc' = [pc EXCEPT ![i] = "settled"]

\* invokeWeb up to its first await: one fetch.
InvokeWeb(i, cmd, args) ==
    /\ wire' = [wire EXCEPT ![i] = HttpRequest(cmd, args)]
    /\ posts' = posts + 1
    /\ pc' = [pc EXCEPT ![i] = "fetch"]

\* invoke(cmd, args): the synchronous part of the call.
Invoke(i, cmd, args) ==
    /\ i = invokes + 1
    /\ pc[i] = "idle"
    /\ request' = [request EXCEPT ![i] = [cmd |-> cmd, args |-> args]]
    /\ invokes' = invokes + 1
    /\ IF IS_TAURI
       THEN /\ pc' = [pc EXCEPT ![i] = "import"]
            /\ UNCHANGED <<wire, posts>>
       ELSE InvokeWeb(i, cmd, args)
    /\ UNCHANGED <<facade, IS_TAURI, response, ipc, parsed, outcome, settles, ipcs>>

\* Embedded: the dynamic import resolved; tauriInvoke(cmd, args) is called.
ImportResolves(i) ==
    /\ pc[i] = "import"
    /\ wire' = [wire EXCEPT ![i] = IpcRequest(request[i].cmd, request[i].args)]
    /\ ipcs' = ipcs + 1
    /\ pc' = [pc EXCEPT ![i] = "channel"]
    /\ UNCHANGED <<facade, IS_TAURI, request, response, ipc, parsed, outcome, settles,
                   invokes, posts>>

\* Embedded: the channel call completed with c.
ChannelSettles(i, c) ==
    /\ pc[i] = "channel"
    /\ ipc' = [ipc EXCEPT ![i] = c]
    /\ pc' = [pc EXCEPT ![i] = "returned"]
    /\ UNCHANGED <<facade, IS_TAURI, request, wire, response, parsed, outcome, settles,
                   invokes, posts, ipcs>>

\* mutant: the embedded path normalises what the channel returned
AfterChannelNormalizes(i) ==
    /\ pc[i] = "returned"
    /\ Settle(i, IF ipc[i].kind = "resolved" THEN Normalize(ipc[i].value)
                 ELSE ipc[i])
    /\ UNCHANGED <<facade, IS_TAURI, request, wire, response, ipc, parsed, invokes,
                   posts, ipcs>>

\* Embedded: `return tauriInvoke(cmd, args)`: the promise follows the channel's.
AfterChannel(i) ==
    /\ pc[i] = "returned"
    /\ Settle(i, ipc[i])
    /\ UNCHANGED <<facade, IS_TAURI, request, wire, response, ipc, parsed, invokes,
                   posts, ipcs>>

\* Networked: fetch settled with r.
FetchSettles(i, r) ==
    /\ pc[i] = "fetch"
    /\ response' = [response EXCEPT ![i] = r]
    /\ pc' = [pc EXCEPT ![i] = "fetched"]
    /\ UNCHANGED <<facade, IS_TAURI, request, wire, ipc, parsed, outcome, settles,
                   invokes, posts, ipcs>>

\* mutant: a failed fetch is retried
AfterFetchRetries(i) ==
    /\ pc[i] = "fetched"
    /\ IF response[i].net = "failed"
       THEN /\ posts' = posts + 1
            /\ pc' = [pc EXCEPT ![i] = "fetch"]
            /\ UNCHANGED <<parsed, outcome, settles>>
       ELSE IF ~Ok(response[i])
       THEN /\ Settle(i, Rejected(NewError(
                   Str("RPC call failed: " \o ToString(response[i].status)))))
            /\ UNCHANGED <<parsed, posts>>
       ELSE /\ parsed' = [parsed EXCEPT ![i] = TRUE]
            /\ pc' = [pc EXCEPT ![i] = "json"]
            /\ UNCHANGED <<outcome, settles, posts>>
    /\ UNCHANGED <<facade, IS_TAURI, request, wire, response, ipc, invokes, ipcs>>

\* Networked: after `await fetch(...)`: a failed fetch throws, a non-2xx
\* response throws, otherwise response.json() is called.
AfterFetch(i) ==
    /\ pc[i] = "fetched"
    /\ IF response[i].net = "failed"
       THEN /\ Settle(i, Rejected(ErrorObj("TypeError", "Failed to fetch")))
            /\ UNCHANGED parsed
       ELSE IF ~Ok(response[i])
       THEN /\ Settle(i, Rejected(NewError(
                   Str("RPC call failed: " \o ToString(response[i].status)))))
            /\ UNCHANGED parsed
       ELSE /\ parsed' = [parsed EXCEPT ![i] = TRUE]
            /\ pc' = [pc EXCEPT ![i] = "json"]
            /\ UNCHANGED <<outcome, settles>>
    /\ UNCHANGED <<facade, IS_TAURI, request, wire, response, ipc, invokes, posts, ipcs>>

\* Networked: the body has been read.
JsonSettles(i) ==
    /\ pc[i] = "json"
    /\ pc' = [pc EXCEPT ![i] = "read"]
    /\ UNCHANGED <<facade, IS_TAURI, request, wire, response, ipc, parsed, outcome,
                   settles, invokes, posts, ipcs>>

\* mutant: results are handed out in the order the calls were made
AfterJsonInOrder(i) ==
    /\ pc[i] = "read"
    /\ \A j \in CallIds : j < i => pc[j] = "settled"
    /\ IF ~response[i].parses
       THEN Settle(i, Rejected(ErrorObj("SyntaxError", "Unexpected token")))
       ELSE Settle(i, Normalize(response[i].json))
    /\ UNCHANGED <<facade, IS_TAURI, request, wire, response, ipc, parsed, invokes,
                   posts, ipcs>>

\* mutant: a body that is no JSON is swallowed and the call resolves undefined
AfterJsonSwallows(i) ==
    /\ pc[i] = "read"
    /\ IF ~response[i].parses
       THEN Settle(i, Resolved(Bare(Undefined)))
       ELSE Settle(i, Normalize(response[i].json))
    /\ UNCHANGED <<facade, IS_TAURI, request, wire, response, ipc, parsed, invokes,
                   posts, ipcs>>

\* Networked: after `await response.json()`: a body that is no JSON throws,
\* otherwise the result is normalised.
AfterJson(i) ==
    /\ pc[i] = "read"
    /\ IF ~response[i].parses
       THEN Settle(i, Rejected(ErrorObj("SyntaxError", "Unexpected token")))
       ELSE Settle(i, Normalize(response[i].json))
    /\ UNCHANGED <<facade, IS_TAURI, request, wire, response, ipc, parsed, invokes,
                   posts, ipcs>>

(***************************************************************************)
(* The event bridge: listen, the unlisten function it returns, emit, and   *)
(* the native event system the embedded path hands them to.                *)
(***************************************************************************)
EventNames == {"price-update", "x"}

\* listen(event, handler): embedded, the registration goes to the native event
\* system (tauriListen) and its unlisten function is returned; networked, a
\* warning is logged and a function that does nothing is returned.
Listen(s, event) ==
    /\ subs[s].state = "none"
    /\ subs' = [subs EXCEPT ![s] =
                  [event |-> event, state |-> "listening", native |-> IS_TAURI,
                   unlistens |-> 0, threw |-> FALSE]]
    /\ UNCHANGED <<rest, IS_TAURI, invokeVars, hostMarker, IS_WEB, inflight, handled,
                   emits, capability>>

\* The function listen resolved to is called: embedded, the native
\* registration is removed; networked, `() => {}` runs.
Unlisten(s) ==
    /\ subs[s].state \in {"listening", "unlistened"}
    /\ subs[s].unlistens < MaxUnlistens
    /\ subs' = [subs EXCEPT ![s] =
                  [@ EXCEPT !.state = "unlistened", !.native = FALSE,
                            !.unlistens = @ + 1]]
    /\ UNCHANGED <<rest, IS_TAURI, invokeVars, hostMarker, IS_WEB, inflight, handled,
                   emits, capability>>

\* mutant: networked, emit dispatches to the handlers listen was given
EmitDispatchesLocally(event) ==
    /\ Len(emits) < MaxEmits
    /\ emits' = Append(emits, event)
    /\ inflight' = [s \in SubIds |->
                      IF subs[s].state = "listening" /\ subs[s].event = event
                      THEN inflight[s] + 1 ELSE inflight[s]]
    /\ UNCHANGED <<rest, IS_TAURI, invokeVars, hostMarker, IS_WEB, subs, handled,
                   capability>>

\* emit(event, payload): embedded, tauriEmit hands the event to the native
\* emitter, which owes a delivery to every native registration for that name;
\* networked, a warning is logged and nothing else happens.
Emit(event) ==
    /\ Len(emits) < MaxEmits
    /\ emits' = Append(emits, event)
    /\ inflight' = [s \in SubIds |->
                      IF IS_TAURI /\ subs[s].native /\ subs[s].event = event
                      THEN inflight[s] + 1 ELSE inflight[s]]
    /\ UNCHANGED <<rest, IS_TAURI, invokeVars, hostMarker, IS_WEB, subs, handled,
                   capability>>

\* The native event system invokes the handler of s for a delivery it holds.
NativeDelivers(s) ==
    /\ inflight[s] > 0
    /\ inflight' = [inflight EXCEPT ![s] = @ - 1]
    /\ handled' = [handled EXCEPT ![s] = @ + 1]
    /\ UNCHANGED <<rest, IS_TAURI, invokeVars, hostMarker, IS_WEB, subs, emits,
                   capability>>

\* The native event system discards a delivery it holds for a registration
\* that has been removed.
NativeDrops(s) ==
    /\ inflight[s] > 0
    /\ subs[s].state = "unlistened"
    /\ inflight' = [inflight EXCEPT ![s] = @ - 1]
    /\ UNCHANGED <<rest, IS_TAURI, invokeVars, hostMarker, IS_WEB, subs, handled,
                   emits, capability>>

(***************************************************************************)
(* Capability facades: file system and save dialog.                        *)
(***************************************************************************)
FsOps == {"readTextFile", "writeTextFile", "readFile", "writeFile", "mkdir"}

FsPaths == {"notes.txt", "data"}

\* What the host's file I/O can do with a call handed to it.
HostFsResults ==
    {Resolved(Bare(Str("contents"))), Rejected(Bare(Str("No such file")))}

WebFsError ==
    ErrorObj("Error",
        "[Web Mode] File system operations are not available. Use server-side APIs.")

\* mutant: the host marker is looked up again at each call
FsCallChecksMarker(op, path, host) ==
    /\ capability' =
          IF hostMarker THEN Capability(op, path, "tauri", host)
          ELSE Capability(op, path, "web", Rejected(WebFsError))
    /\ UNCHANGED <<rest, IS_TAURI, invokeVars, hostMarker, IS_WEB, events>>

\* readTextFile / writeTextFile / readFile / writeFile / mkdir: embedded, the
\* call goes to the host's file I/O; networked, an Error is thrown.
FsCall(op, path, host) ==
    /\ capability' =
          IF IS_TAURI THEN Capability(op, path, "tauri", host)
          ELSE Capability(op, path, "web", Rejected(WebFsError))
    /\ UNCHANGED <<rest, IS_TAURI, invokeVars, hostMarker, IS_WEB, events>>

SaveOptions == {"", "report.csv"}

\* What the host's save dialog can resolve to: a chosen path, or null.
HostSaveResults == {Resolved(Bare(Str("/home/u/report.csv"))), Resolved(Bare(Null))}

\* mutant: networked, the suggested path is handed back as if it were chosen
SaveDialogEchoes(defaultPath, host) ==
    /\ capability' =
          IF IS_TAURI THEN Capability("saveDialog", defaultPath, "tauri", host)
          ELSE Capability("saveDialog", defaultPath, "web",
                  IF defaultPath = "" THEN Resolved(Bare(Null))
                  ELSE Resolved(Bare(Str(defaultPath))))
    /\ UNCHANGED <<rest, IS_TAURI, invokeVars, hostMarker, IS_WEB, events>>

\* saveDialog(options): embedded, the host's save dialog; networked, a warning
\* is logged and null is returned.
SaveDialog(defaultPath, host) ==
    /\ capability' =
          IF IS_TAURI THEN Capability("saveDialog", defaultPath, "tauri", host)
          ELSE Capability("saveDialog", defaultPath, "web", Resolved(Bare(Null)))
    /\ UNCHANGED <<rest, IS_TAURI, invokeVars, hostMarker, IS_WEB, events>>

\* The page's environment: the host marker appears on or disappears from the
\* window after the module was loaded.
MarkerChanges ==
    /\ hostMarker' = ~hostMarker
    /\ UNCHANGED <<rest, IS_TAURI, invokeVars, IS_WEB, events, capability>>

(***************************************************************************)
(* joinPath.  A string is a sequence of characters.                        *)
(***************************************************************************)
RECURSIVE StripTrailing(_)
\* p.replace(/\/+$/g, '')
StripTrailing(p) ==
    IF p # <<>> /\ p[Len(p)] = "/" THEN StripTrailing(SubSeq(p, 1, Len(p) - 1))
    ELSE p

RECURSIVE StripLeading(_)
\* p.replace(/^\/+/g, '')
StripLeading(p) ==
    IF p # <<>> /\ p[1] = "/" THEN StripLeading(Tail(p)) ELSE p

\* p.replace(/^\/+|\/+$/g, '')
StripBoth(p) == StripTrailing(StripLeading(p))

\* paths.map((p, i) => i === 0 ? p.replace(/\/+$/g, '') : p.replace(/^\/+|\/+$/g, ''))
Stripped(paths) ==
    [i \in 1..Len(paths) |->
        IF i = 1 THEN StripTrailing(paths[i]) ELSE StripBoth(paths[i])]

\* .filter(p => p.length > 0)
NonEmpty(segs) == SelectSeq(segs, LAMBDA p : Len(p) > 0)

RECURSIVE JoinSlash(_)
\* .join('/')
JoinSlash(segs) ==
    IF segs = <<>> THEN <<>>
    ELSE IF Len(segs) = 1 THEN segs[1]
    ELSE segs[1] \o <<"/">> \o JoinSlash(Tail(segs))

\* mutant: like Node's path.join, no segments give "."
JoinPathDot(paths) ==
    IF Len(paths) = 0 THEN <<".">>
    ELSE JoinSlash(NonEmpty(Stripped(paths)))

\* mutant: the first segment is stripped like the others
JoinPathStripsAll(paths) ==
    IF Len(paths) = 0 THEN <<>>
    ELSE JoinSlash(NonEmpty([i \in 1..Len(paths) |-> StripBoth(paths[i])]))

\* mutant: segments after the first keep their trailing slashes
JoinPathKeepsTrailing(paths) ==
    IF Len(paths) = 0 THEN <<>>
    ELSE JoinSlash(NonEmpty([i \in 1..Len(paths) |->
            IF i = 1 THEN StripTrailing(paths[i]) ELSE StripLeading(paths[i])]))

\* joinPath(...paths), networked.
JoinPath(paths) ==
    IF Len(paths) = 0 THEN <<>>
    ELSE JoinSlash(NonEmpty(Stripped(paths)))

Chars == {"/", "a"}

SeqsUpTo(S, n) == UNION {[1..k -> S] : k \in 0..n}

Segments == SeqsUpTo(Chars, MaxSegLen)

\* joinPath("a/", "/b/", "c/") and joinPath("/a", "")
ExampleArgs ==
    { << <<"a", "/">>, <<"/", "b", "/">>, <<"c", "/">> >>,
      << <<"/", "a">>, <<>> >> }

\* Segments with slashes inside them and runs of slashes at their ends.
InnerSlashArgs ==
    { << <<"/", "/", "a", "/", "a", "/", "/">>,
         <<"/", "/", "a", "/", "/", "a", "/">>, <<"/">> >> }

PathArgs == SeqsUpTo(Segments, MaxSegments) \cup ExampleArgs \cup InnerSlashArgs

\* What the host's path joiner can resolve to.
HostPaths == { <<"h">> }

\* joinPath(...paths): embedded, the host's joiner; networked, the manual join.
JoinPathCall(paths, host) ==
    /\ pathCall' = IF IS_TAURI THEN PathCall(paths, "tauri", host)
                   ELSE PathCall(paths, "web", JoinPath(paths))
    /\ UNCHANGED <<room, adapter, dlg, now>>

(***************************************************************************)
(* openDialog.                                                             *)
(***************************************************************************)
SETTLE_DELAY == 300

\* A File of the input element: browsers expose its name, not its path.
File(name, path) == [name |-> name, path |-> path]

Selections ==
    { <<>>,
      << File("a.csv", "/home/u/a.csv") >>,
      << File("a.csv", "/home/u/a.csv"), File("b.txt", "/home/u/docs/b.txt") >> }

\* options.filters, each filter reduced to its extensions.
FilterSets == { <<>>, << <<"csv", "txt">> >>, << <<"csv">>, <<"json">> >> }

RECURSIVE Concat(_)
\* flatMap of the filters' extension lists
Concat(lists) ==
    IF lists = <<>> THEN <<>> ELSE lists[1] \o Concat(Tail(lists))

RECURSIVE JoinComma(_)
\* .map(e => `.${e}`).join(',')
JoinComma(exts) ==
    IF exts = <<>> THEN ""
    ELSE IF Len(exts) = 1 THEN "." \o exts[1]
    ELSE "." \o exts[1] \o "," \o JoinComma(Tail(exts))

\* input.accept: left empty when there are no filters.
Accept(filters) == IF Len(filters) > 0 THEN JoinComma(Concat(filters)) ELSE ""

\* What the host's dialog can resolve to: null, a path, a list of paths.
HostDialogResults ==
    { DialogNull, DialogResult("name", <<"/home/u/a.csv">>),
      DialogResult("names", <<"/home/u/a.csv", "/home/u/docs/b.txt">>) }

\* openDialog(options): embedded, the host's dialog; networked, a file input
\* is created, a once-only focus listener and a change handler are installed
\* and the picker is opened with input.click().
OpenDialog(multiple, filters, host) ==
    /\ dlg.by = "none"
    /\ dlg' = IF IS_TAURI
              THEN [dlg EXCEPT !.by = "tauri", !.multiple = multiple,
                               !.promise = host]
              ELSE [dlg EXCEPT !.by = "web", !.multiple = multiple,
                               !.accept = Accept(filters), !.listener = TRUE,
                               !.picker = "open"]
    /\ UNCHANGED <<room, adapter, pathCall, now>>

\* The instant up to which the clock is followed.
Horizon == MaxTicks * 50

\* mutant: a focus event resolves null at once
WindowFocusResolvesNow ==
    /\ dlg.listener
    /\ now + SETTLE_DELAY <= Horizon
    /\ dlg' = [dlg EXCEPT !.listener = FALSE, !.timer = "fired",
                          !.focusAt = now, !.deadline = now,
                          !.resolved = TRUE,
                          !.promise = IF dlg.promise = DialogPending
                                      THEN DialogNull ELSE @]
    /\ UNCHANGED <<room, adapter, pathCall, now>>

\* The window gets a focus event, while the picker is open or after it:
\* handleCancel runs once and starts the settle timer.  Focus events are
\* followed while their timer is due within the horizon.
WindowFocus ==
    /\ dlg.listener
    /\ now + SETTLE_DELAY <= Horizon
    /\ dlg' = [dlg EXCEPT !.listener = FALSE, !.timer = "armed",
                          !.focusAt = now, !.deadline = now + SETTLE_DELAY]
    /\ UNCHANGED <<room, adapter, pathCall, now>>

\* The settle timer runs, no earlier than its deadline.
TimerFires ==
    /\ dlg.timer = "armed"
    /\ now >= dlg.deadline
    /\ dlg' = IF ~dlg.resolved /\ Len(dlg.files) = 0
              THEN [dlg EXCEPT !.timer = "fired", !.resolved = TRUE,
                               !.promise = IF @ = DialogPending
                                           THEN DialogNull ELSE @]
              ELSE [dlg EXCEPT !.timer = "fired"]
    /\ UNCHANGED <<room, adapter, pathCall, now>>

\* Array.from(input.files).map(f => f.name)
Names(files) == [i \in 1..Len(files) |-> files[i].name]

\* What onchange hands to resolve.
Chosen(multiple, files) ==
    IF Len(files) > 0
    THEN IF multiple THEN DialogResult("names", Names(files))
         ELSE DialogResult("name", <<Names(files)[1]>>)
    ELSE DialogNull

\* The picker is closed with a selection: input.files is set and onchange
\* runs.  resolve() on a promise that is already resolved changes nothing.
Change(files) ==
    /\ dlg.by = "web"
    /\ dlg.picker = "open"
    /\ Len(files) <= (IF dlg.multiple THEN 2 ELSE 1)
    /\ dlg' = [dlg EXCEPT !.files = files, !.changed = TRUE, !.resolved = TRUE,
                          !.picker = "chosen",
                          !.promise = IF @ = DialogPending
                                      THEN Chosen(dlg.multiple, files) ELSE @]
    /\ UNCHANGED <<room, adapter, pathCall, now>>

\* The picker is closed without a selection: no code of the page runs.
Cancel ==
    /\ dlg.by = "web"
    /\ dlg.picker = "open"
    /\ dlg' = [dlg EXCEPT !.picker = "cancelled"]
    /\ UNCHANGED <<room, adapter, pathCall, now>>

\* Time passes.
Tick ==
    /\ now < Horizon
    /\ now' = now + 50
    /\ UNCHANGED <<room, adapter, pathCall, dlg>>

(***************************************************************************)
(* WarRoomMode.  A state update, the render it causes and the effects of   *)
(* that render are one step.  The progress value is kept in thirds, so     *)
(* that its increment 100 / 150 is the integer 2.  Time is followed in     *)
(* steps of 2500 ms through the time each timer has left.                  *)
(***************************************************************************)
VIEWS == <<"dashboard", "markets", "news", "chat">>

DEFAULT_ROTATION_INTERVAL == 15000

IDLE_TIMEOUT == 5000

Thirds(x) == 3 * x

Min(a, b) == IF a <= b THEN a ELSE b

Max(a, b) == IF a >= b THEN a ELSE b

\* VIEWS.indexOf(prev), counted from 1
IndexOf(v) == CHOOSE i \in 1..Len(VIEWS) : VIEWS[i] = v

\* VIEWS[(currentIndex + 1) % VIEWS.length]
NextView(prev) == VIEWS[(IndexOf(prev) % Len(VIEWS)) + 1]

\* carouselEnabled && !userActive
IsCarouselActive(enabled, active) == enabled /\ ~active

\* clearInterval(ref.current) / clearTimeout(ref.current); a ref that holds
\* null, or the id of a timer that is gone, clears nothing.
Clear(ts, ref) == {t \in ts : t.id # ref}

\* The timers and refs the handlers and effects work on, with the progress
\* value.
Timers(ts, iref, pref, dref, prog) ==
    [timers |-> ts, intervalRef |-> iref, progressRef |-> pref,
     idleTimerRef |-> dref, progress |-> prog]

\* The id setInterval / setTimeout returns: one that no live timer has and
\* that no ref still holds.
FreshId(T) ==
    LET used == {t.id : t \in T.timers} \cup
                {T.intervalRef, T.progressRef, T.idleTimerRef}
    IN  CHOOSE n \in 1..(Cardinality(used) + 1) :
            n \notin used /\ \A m \in 1..(n - 1) : m \in used

\* Cleanup of the rotation effect.
CleanupRotation(T) ==
    [T EXCEPT !.timers = Clear(Clear(@, T.intervalRef), T.progressRef)]

\* intervalRef.current = setInterval(rotateToNext, DEFAULT_ROTATION_INTERVAL)
SetRotation(T) ==
    [T EXCEPT !.timers = @ \cup {Timer(FreshId(T), "rotation",
                                       DEFAULT_ROTATION_INTERVAL)},
              !.intervalRef = FreshId(T)]

\* progressRef.current = setInterval(..., 100)
SetProgress(T) ==
    [T EXCEPT !.timers = @ \cup {Timer(FreshId(T), "progress", 0)},
              !.progressRef = FreshId(T)]

\* Body of the rotation effect.
StartRotation(T, active) ==
    IF active THEN SetProgress(SetRotation([T EXCEPT !.progress = 0])) ELSE T

\* mutant: the rotation timer is started again without clearing the old one
RestartRotationLeaks(T, active) ==
    IF active THEN SetRotation([T EXCEPT !.progress = 0]) ELSE T

\* Body of the effect on a view change; it has no cleanup.
RestartRotation(T, active) ==
    IF active
    THEN SetRotation([T EXCEPT !.progress = 0,
                               !.timers = Clear(@, T.intervalRef)])
    ELSE T

\* The effects of one render, in the order React runs them: the cleanups of
\* the effects whose dependencies changed, then their bodies.
RunEffects(T, rotationDeps, viewDeps, active) ==
    LET t1 == IF rotationDeps THEN CleanupRotation(T) ELSE T
        t2 == IF rotationDeps THEN StartRotation(t1, active) ELSE t1
    IN  IF viewDeps THEN RestartRotation(t2, active) ELSE t2

\* The component renders with state (view, enabled, active) and its effects
\* run on the timers T.
Commit(T, view, enabled, active) ==
    LET was == IsCarouselActive(carouselEnabled, userActive)
        is  == IsCarouselActive(enabled, active)
        R   == RunEffects(T, was # is, was # is \/ view # activeView, is)
    IN  /\ activeView' = view
        /\ carouselEnabled' = enabled
        /\ userActive' = active
        /\ progress' = R.progress
        /\ timers' = R.timers
        /\ intervalRef' = R.intervalRef
        /\ progressRef' = R.progressRef
        /\ idleTimerRef' = R.idleTimerRef

Current == Timers(timers, intervalRef, progressRef, idleTimerRef, progress)

\* The component mounts: fresh state and refs, and every effect runs.
Mount ==
    /\ ~mounted
    /\ mounted' = TRUE
    /\ LET R == RunEffects(Timers(timers, NoTimer, NoTimer, NoTimer, 0),
                           TRUE, TRUE, IsCarouselActive(TRUE, FALSE))
       IN  /\ activeView' = "dashboard"
           /\ carouselEnabled' = TRUE
           /\ userActive' = FALSE
           /\ progress' = R.progress
           /\ timers' = R.timers
           /\ intervalRef' = R.intervalRef
           /\ progressRef' = R.progressRef
           /\ idleTimerRef' = R.idleTimerRef
    /\ sinceMove' = -1
    /\ sinceRotation' = -1
    /\ UNCHANGED <<adapter, pathCall, dlg, now, mode>>

\* The component unmounts: the cleanups of its effects run, and its state and
\* refs are gone.
Unmount ==
    /\ mounted
    /\ mounted' = FALSE
    /\ timers' = CleanupRotation(
                    [Current EXCEPT !.timers = Clear(@, idleTimerRef)]).timers
    /\ activeView' = "dashboard"
    /\ carouselEnabled' = TRUE
    /\ userActive' = FALSE
    /\ progress' = 0
    /\ intervalRef' = NoTimer /\ progressRef' = NoTimer /\ idleTimerRef' = NoTimer
    /\ sinceMove' = -1
    /\ sinceRotation' = -1
    /\ UNCHANGED <<adapter, pathCall, dlg, now, mode>>

\* idleTimerRef.current = setTimeout(..., IDLE_TIMEOUT)
SetIdle(T) ==
    [T EXCEPT !.timers = @ \cup {Timer(FreshId(T), "idle", IDLE_TIMEOUT)},
              !.idleTimerRef = FreshId(T)]

\* mutant: the idle timer is set without clearing the one that is pending
HandleMouseMoveStacks ==
    /\ mounted
    /\ sinceMove' = 0
    /\ Commit(SetIdle(Current), activeView, carouselEnabled, TRUE)
    /\ UNCHANGED <<adapter, pathCall, dlg, now, mounted, mode, sinceRotation>>

\* handleMouseMove
HandleMouseMove ==
    /\ mounted
    /\ sinceMove' = 0
    /\ Commit(SetIdle([Current EXCEPT !.timers = Clear(@, idleTimerRef)]),
              activeView, carouselEnabled, TRUE)
    /\ UNCHANGED <<adapter, pathCall, dlg, now, mounted, mode, sinceRotation>>

\* The idle timeout t runs, no earlier than it is due: setUserActive(false).
IdleFires(t) ==
    /\ t \in timers /\ t.kind = "idle"
    /\ t.left = 0
    /\ IF mounted
       THEN Commit([Current EXCEPT !.timers = @ \ {t}],
                   activeView, carouselEnabled, FALSE)
       ELSE /\ timers' = timers \ {t}
            /\ UNCHANGED <<roomState, intervalRef, progressRef, idleTimerRef>>
    /\ UNCHANGED <<adapter, pathCall, dlg, now, mounted, mode, sinceMove,
                   sinceRotation>>

\* mutant: the view is advanced by two
RotationFiresSkips(t) ==
    /\ t \in timers /\ t.kind = "rotation"
    /\ t.left = 0
    /\ LET again == (timers \ {t}) \cup
                    {Timer(t.id, "rotation", DEFAULT_ROTATION_INTERVAL)}
       IN  IF mounted
           THEN /\ Commit([Current EXCEPT !.timers = again, !.progress = 0],
                          NextView(NextView(activeView)), carouselEnabled, userActive)
                /\ sinceRotation' = 0
           ELSE /\ timers' = again
                /\ UNCHANGED <<roomState, intervalRef, progressRef, idleTimerRef,
                               sinceRotation>>
    /\ UNCHANGED <<adapter, pathCall, dlg, now, mounted, mode, sinceMove>>

\* The rotation interval t runs, no earlier than it is due: rotateToNext.
RotationFires(t) ==
    /\ t \in timers /\ t.kind = "rotation"
    /\ t.left = 0
    /\ LET again == (timers \ {t}) \cup
                    {Timer(t.id, "rotation", DEFAULT_ROTATION_INTERVAL)}
       IN  IF mounted
           THEN /\ Commit([Current EXCEPT !.timers = again, !.progress = 0],
                          NextView(activeView), carouselEnabled, userActive)
                /\ sinceRotation' = 0
           ELSE /\ timers' = again
                /\ UNCHANGED <<roomState, intervalRef, progressRef, idleTimerRef,
                               sinceRotation>>
    /\ UNCHANGED <<adapter, pathCall, dlg, now, mounted, mode, sinceMove>>

\* mutant: the progress value is not capped
ProgressTickUncapped(prev) ==
    prev + Thirds(100) \div (DEFAULT_ROTATION_INTERVAL \div 100)

\* prev => Math.min(prev + (100 / (DEFAULT_ROTATION_INTERVAL / 100)), 100)
ProgressTick(prev) ==
    Min(prev + Thirds(100) \div (DEFAULT_ROTATION_INTERVAL \div 100), Thirds(100))

RECURSIVE ProgressTicks(_, _)
\* The progress value after n runs of the progress interval.
ProgressTicks(prev, n) ==
    IF n = 0 THEN prev ELSE ProgressTicks(ProgressTick(prev), n - 1)

\* toggleCarousel, from a click on its button.
ToggleCarousel ==
    /\ mounted
    /\ Commit([Current EXCEPT !.progress = 0],
              activeView, ~carouselEnabled, userActive)
    /\ UNCHANGED <<adapter, pathCall, dlg, now, mounted, mode, sinceMove,
                   sinceRotation>>

\* A click on the button of a view: setActiveView(item.id).
ClickView(v) ==
    /\ mounted
    /\ Commit(Current, v, carouselEnabled, userActive)
    /\ UNCHANGED <<adapter, pathCall, dlg, now, mounted, mode, sinceMove,
                   sinceRotation>>

\* A click on the exit button: setMode('terminal').
ClickExit ==
    /\ mounted
    /\ mode' = "terminal"
    /\ UNCHANGED <<adapter, pathCall, dlg, now, mounted, roomState, roomTimers,
                   sinceMove, sinceRotation>>

\* The targets of a key event: their tag name and whether they are editable.
Target(tagName, isContentEditable) ==
    [tagName |-> tagName, isContentEditable |-> isContentEditable]

Targets ==
    { Target("BODY", FALSE), Target("INPUT", FALSE), Target("TEXTAREA", FALSE),
      Target("DIV", TRUE), Target("BUTTON", FALSE) }

Keys == {"Escape", "1", "2", "3", "4", " ", "a"}

\* target.tagName === 'INPUT' || target.tagName === 'TEXTAREA' || target.isContentEditable
IsInput(target) ==
    target.tagName = "INPUT" \/ target.tagName = "TEXTAREA" \/ target.isContentEditable

\* The view a key selects: keys 1 to 4, any other key leaves the view.
KeyView(key, view) ==
    CASE key = "1" -> "dashboard"
      [] key = "2" -> "markets"
      [] key = "3" -> "news"
      [] key = "4" -> "chat"
      [] OTHER     -> view

\* mutant: the number keys work wherever the focus is
HandleKeyDownAnywhere(key, target) ==
    /\ mounted
    /\ mode' = IF key = "Escape" THEN "terminal" ELSE mode
    /\ IF ~IsInput(target) /\ key = " "
       THEN Commit([Current EXCEPT !.progress = 0],
                   activeView, ~carouselEnabled, userActive)
       ELSE Commit(Current, KeyView(key, activeView), carouselEnabled, userActive)
    /\ UNCHANGED <<adapter, pathCall, dlg, now, mounted, sinceMove, sinceRotation>>

\* handleKeyDown
HandleKeyDown(key, target) ==
    /\ mounted
    /\ mode' = IF key = "Escape" THEN "terminal" ELSE mode
    /\ IF IsInput(target)
       THEN UNCHANGED <<roomState, roomTimers>>
       ELSE IF key = " "
       THEN Commit([Current EXCEPT !.progress = 0],
                   activeView, ~carouselEnabled, userActive)
       ELSE Commit(Current, KeyView(key, activeView), carouselEnabled, userActive)
    /\ UNCHANGED <<adapter, pathCall, dlg, now, mounted, sinceMove, sinceRotation>>

\* style={{ display: activeView === v ? 'block' : 'none' }}
Display(v) == IF activeView = v THEN "block" ELSE "none"

\* 2500 ms pass: every timer has that much less left, and a live progress
\* interval of the mounted component has run 25 times.
Elapse ==
    /\ timers' = {Timer(t.id, t.kind, Max(t.left - 2500, 0)) : t \in timers}
    /\ progress' = IF mounted
                   THEN ProgressTicks(progress,
                            25 * Cardinality({t \in timers : t.kind = "progress"}))
                   ELSE progress
    /\ sinceMove' = IF sinceMove < 0 THEN sinceMove
                    ELSE Min(sinceMove + 2500, IDLE_TIMEOUT)
    /\ sinceRotation' = IF sinceRotation < 0 THEN sinceRotation
                        ELSE Min(sinceRotation + 2500, DEFAULT_ROTATION_INTERVAL)
    /\ UNCHANGED <<adapter, pathCall, dlg, now, mounted, mode, activeView,
                   carouselEnabled, userActive, intervalRef, progressRef,
                   idleTimerRef>>

(***************************************************************************)
(* Specifications.                                                         *)
(***************************************************************************)
\* Concurrent calls, representative answers.
Next ==
    \E i \in CallIds :
        \/ \E rq \in Requests : Invoke(i, rq.cmd, rq.args)
        \/ ImportResolves(i)
        \/ \E c \in SampleCompletions : ChannelSettles(i, c)
        \/ AfterChannel(i)
        \/ \E r \in SampleResponses : FetchSettles(i, r)
        \/ AfterFetch(i)
        \/ JsonSettles(i)
        \/ AfterJson(i)

Spec == Init /\ [][Next]_vars

\* The continuations of an async function run once what they await has
\* settled (the microtask queue is always drained); the transports are not
\* obliged to answer.
Fairness ==
    \A i \in CallIds :
        /\ WF_vars(AfterChannel(i))
        /\ WF_vars(AfterFetch(i))
        /\ WF_vars(AfterJson(i))

FairSpec == Spec /\ Fairness

\* One call, every answer.
NextWire ==
    \/ \E rq \in Requests : Invoke(1, rq.cmd, rq.args)
    \/ ImportResolves(1)
    \/ \E c \in Completions : ChannelSettles(1, c)
    \/ AfterChannel(1)
    \/ \E r \in Responses : FetchSettles(1, r)
    \/ AfterFetch(1)
    \/ JsonSettles(1)
    \/ AfterJson(1)

SpecWire == Init /\ [][NextWire]_vars

\* The event bridge, the capability facades and the dispatch of one invoke
\* call, in a page whose host marker may change.
NextFacade ==
    \/ \E s \in SubIds, e \in EventNames : Listen(s, e)
    \/ \E s \in SubIds : Unlisten(s)
    \/ \E e \in EventNames : Emit(e)
    \/ \E s \in SubIds : NativeDelivers(s)
    \/ \E s \in SubIds : NativeDrops(s)
    \/ \E op \in FsOps, p \in FsPaths, h \in HostFsResults : FsCall(op, p, h)
    \/ \E o \in SaveOptions, h \in HostSaveResults : SaveDialog(o, h)
    \/ \E rq \in Requests : Invoke(1, rq.cmd, rq.args)
    \/ ImportResolves(1)
    \/ MarkerChanges

SpecFacade == Init /\ [][NextFacade]_vars

\* joinPath on every list of segments.  The function keeps no state, so one
\* call is followed.
NextPath ==
    /\ pathCall.by = "none"
    /\ \E paths \in PathArgs, h \in HostPaths : JoinPathCall(paths, h)

SpecPath == Init /\ [][NextPath]_vars

\* One openDialog call, the events of its picker and window, and the clock.
NextDialog ==
    \/ \E m \in BOOLEAN, f \in FilterSets, h \in HostDialogResults :
          OpenDialog(m, f, h)
    \/ WindowFocus
    \/ TimerFires
    \/ \E files \in Selections : Change(files)
    \/ Cancel
    \/ Tick

SpecDialog == Init /\ [][NextDialog]_vars

\* WarRoomMode: mounts, the events of its window and buttons, its timers and
\* the clock.
NextRoom ==
    \/ Mount
    \/ Unmount
    \/ HandleMouseMove
    \/ \E t \in timers : IdleFires(t)
    \/ \E t \in timers : RotationFires(t)
    \/ ToggleCarousel
    \/ \E i \in 1..Len(VIEWS) : ClickView(VIEWS[i])
    \/ ClickExit
    \/ \E key \in Keys, target \in Targets : HandleKeyDown(key, target)
    \/ Elapse

SpecRoom == Init /\ [][NextRoom]_vars

\* WarRoomMode driven from the keyboard only, with the user coming and
\* going: no click on a button, and the views change by the keys alone.
NextKeys ==
    \/ Mount
    \/ Unmount
    \/ HandleMouseMove
    \/ \E t \in timers : IdleFires(t)
    \/ \E key \in Keys, target \in Targets : HandleKeyDown(key, target)
    \/ Elapse

SpecKeys == Init /\ [][NextKeys]_vars

\* The event loop runs a timer that is due, and time passes.
FairSpecDialog == SpecDialog /\ WF_vars(TimerFires) /\ WF_vars(Tick)

(***************************************************************************)
(* Properties.                                                             *)
(***************************************************************************)
Settled(i) == outcome[i].kind # "pending"

\* Call i ran networked and got a 2xx response whose body parsed as JSON.
Got2xxJson(i) ==
    /\ ~IS_TAURI
    /\ response[i].net = "ok"
    /\ response[i].status \in 200..299
    /\ response[i].parses

\* The message of the error a call was rejected with, as a string value.
Message(i) == Str(outcome[i].value.val.v)

\* The transport of call i has answered or failed, and nothing else is
\* awaited from it.
Answered(i) ==
    \/ pc[i] = "returned"
    \/ pc[i] = "read"
    \/ pc[i] = "fetched" /\ (response[i].net = "failed" \/ ~Ok(response[i]))

\* C1: every invoke call yields exactly one outcome: its promise is settled at
\* most once, as resolved or as rejected, the settled outcome never changes,
\* and once the transport has answered or failed the promise settles.
C1_ExactlyOneOutcome ==
    /\ [](\A i \in CallIds :
            /\ settles[i] <= 1
            /\ outcome[i].kind \in {"pending", "resolved", "rejected"}
            /\ (settles[i] = 1 <=> Settled(i))
            /\ (pc[i] = "settled" <=> Settled(i)))
    /\ [][\A i \in CallIds : Settled(i) => outcome'[i] = outcome[i]]_vars
    /\ \A i \in CallIds : Answered(i) ~> Settled(i)

C1_Witness ==
    /\ outcome[1].kind = "resolved" /\ settles[1] = 1
    /\ outcome[2].kind = "rejected" /\ settles[2] = 1

\* The body {success: true, data: D}.
IsSuccessData(b) ==
    /\ b.val = Quote /\ b.error = Undefined
    /\ b.success = True /\ b.data # Undefined

\* C2: networked, a 2xx response with body {success:true, data:D} resolves to
\* exactly D, for every D (null, false, 0 and empty containers included).
C2_SuccessDataResolvesToData ==
    \A i \in CallIds :
        (pc[i] = "settled" /\ Got2xxJson(i) /\ IsSuccessData(response[i].json))
            => outcome[i] = Resolved(Bare(response[i].json.data))

C2_Witness ==
    \E i \in CallIds :
        /\ pc[i] = "settled" /\ Got2xxJson(i)
        /\ response[i].json = Json(Quote, Undefined, True, Null)
        /\ outcome[i] = Resolved(Bare(Null))

\* C3 (as stated): networked, every 2xx body that contains an `error` field
\* rejects with a message equal to that field's value, whatever `success` and
\* `data` are.
C3_AnyErrorFieldRejects ==
    \A i \in CallIds :
        (pc[i] = "settled" /\ Got2xxJson(i)
            /\ response[i].json.error # Undefined)
            => (outcome[i].kind = "rejected"
                /\ Message(i) = response[i].json.error)

\* C3 (amended): networked, every 2xx body whose `error` field is truthy
\* rejects, whatever `success` and `data` are, with the message String(error):
\* the field's value itself when it is a non-empty string.  A falsy `error`
\* field (null, false, 0, "") leaves the outcome what it is without the field.
C3_TruthyErrorRejects ==
    \A i \in CallIds :
        (pc[i] = "settled" /\ Got2xxJson(i)) =>
            LET b == response[i].json IN
            /\ Truthy(b.error) =>
                  /\ outcome[i].kind = "rejected"
                  /\ outcome[i].value.val.ty = "Error"
                  /\ Message(i) = JsString(b.error)
                  /\ (b.error.ty = "string" => Message(i) = b.error)
            /\ (b.error # Undefined /\ ~Truthy(b.error) /\ b.success # False) =>
                  outcome[i].kind = "resolved"

C3_Witness ==
    \E i \in CallIds :
        /\ pc[i] = "settled" /\ Got2xxJson(i)
        /\ response[i].json = Json(Quote, NotFound, True, Five)
        /\ outcome[i] = Rejected(ErrorObj("Error", "symbol not found"))

\* C4: networked, a 2xx body with success:false and no `error` field rejects
\* with a generic, non-empty message, also when it carries a `data` field.
C4_FailedFlagRejectsGeneric ==
    \A i \in CallIds :
        (pc[i] = "settled" /\ Got2xxJson(i)
            /\ response[i].json.success = False
            /\ response[i].json.error = Undefined)
            => (outcome[i].kind = "rejected"
                /\ Message(i) # EmptyStr
                /\ outcome[i] = Rejected(ErrorObj("Error", "Unknown error")))

C4_Witness ==
    \E i \in CallIds :
        /\ pc[i] = "settled" /\ Got2xxJson(i)
        /\ response[i].json = Json(Quote, Undefined, False, Five)
        /\ outcome[i].kind = "rejected"

\* C5: networked, a response whose status is not 2xx rejects whatever its
\* body: the body is never parsed, and no body makes the call resolve.
C5_Non2xxRejects ==
    \A i \in CallIds :
        (~IS_TAURI /\ response[i].net = "ok"
            /\ response[i].status \notin 200..299)
            => /\ ~parsed[i]
               /\ outcome[i].kind # "resolved"
               /\ pc[i] \in {"fetched", "settled"}
               /\ pc[i] = "settled" => outcome[i].kind = "rejected"

C5_Witness ==
    \E i \in CallIds :
        /\ ~IS_TAURI /\ pc[i] = "settled"
        /\ response[i].status = 404
        /\ response[i].parses
        /\ response[i].json = Json(Quote, Undefined, True, Five)
        /\ outcome[i].kind = "rejected"

\* A raw payload the normaliser has nothing to say about.
NoMarkers(b) ==
    ~Truthy(b.error) /\ b.success # False /\ b.data = Undefined

\* C6: networked, a 2xx body that is a bare value T (object, array, string,
\* number, boolean or null) with no truthy error, no success:false and no data
\* resolves to that body itself.
C6_BareBodyResolvesToItself ==
    \A i \in CallIds :
        (pc[i] = "settled" /\ Got2xxJson(i) /\ NoMarkers(response[i].json))
            => outcome[i] = Resolved(response[i].json)

\* C7 (as stated): in both contexts the raw result goes through the
\* normaliser, so a raw payload has the same outcome in either context
\* (stated for payloads other than null, whose properties cannot be read).
C7_BothPathsNormalize ==
    \A i \in CallIds :
        pc[i] = "settled" =>
            /\ (IS_TAURI /\ ipc[i].kind = "resolved" /\ CanReadProps(ipc[i].value))
                  => outcome[i] = Normalize(ipc[i].value)
            /\ Got2xxJson(i) => outcome[i] = Normalize(response[i].json)

\* C7 (amended): only the networked path normalises; the embedded path
\* returns the channel's result as it is.  A raw payload has the same outcome
\* in both contexts exactly when it is a non-null value with no truthy error,
\* no success:false and no data field.
C7_OnlyNetworkedNormalizes ==
    \A i \in CallIds :
        pc[i] = "settled" =>
            /\ (IS_TAURI /\ ipc[i].kind = "resolved") =>
                  /\ outcome[i] = Resolved(ipc[i].value)
                  /\ (outcome[i] = Normalize(ipc[i].value)
                        <=> (CanReadProps(ipc[i].value) /\ NoMarkers(ipc[i].value)))
            /\ Got2xxJson(i) =>
                  /\ outcome[i] = Normalize(response[i].json)
                  /\ (outcome[i] = Resolved(response[i].json)
                        <=> (CanReadProps(response[i].json)
                             /\ NoMarkers(response[i].json)))

C7_Witness ==
    \E i \in CallIds :
        /\ IS_TAURI /\ pc[i] = "settled"
        /\ ipc[i] = Resolved(Json(Quote, Undefined, True, Five))
        /\ outcome[i] = Resolved(Json(Quote, Undefined, True, Five))
        /\ outcome[i] # Normalize(ipc[i].value)

\* C8: embedded, invoke forwards the command name and the argument map as
\* they are to the channel, and its outcome is the channel's outcome: what the
\* channel returns, untouched, or what the channel raises.
C8_EmbeddedPassThrough ==
    \A i \in CallIds :
        IS_TAURI =>
            /\ pc[i] \in {"channel", "returned", "settled"} =>
                  /\ wire[i].via = "ipc"
                  /\ wire[i].cmd = request[i].cmd
                  /\ wire[i].args = request[i].args
            /\ pc[i] = "settled" => outcome[i] = ipc[i]

C8_Witness ==
    \E i \in CallIds :
        /\ IS_TAURI /\ pc[i] = "settled"
        /\ wire[i].cmd = "get_market_quote"
        /\ wire[i].args = {<<"symbol", "AAPL">>}
        /\ ipc[i] = Resolved(Json(Quote, NotFound, False, Five))
        /\ outcome[i] = ipc[i]

\* Calls that have reached their transport.
Dispatched == {i \in CallIds : pc[i] \notin {"idle", "import"}}

\* C9: each invoke call issues exactly one transport request (one POST when
\* networked, one channel call when embedded): the requests issued are as
\* many as the calls that reached their transport, all the calls once none is
\* still loading the channel; nothing is retried, cached or merged.
C9_OneRequestPerCall ==
    /\ posts + ipcs = Cardinality(Dispatched)
    /\ posts + ipcs <= invokes
    /\ (\A i \in CallIds : pc[i] # "import") => posts + ipcs = invokes
    /\ IS_TAURI => posts = 0
    /\ ~IS_TAURI => (ipcs = 0 /\ posts = invokes)
    /\ \A i \in Dispatched :
          /\ wire[i].cmd = request[i].cmd
          /\ wire[i].args = request[i].args

C9_Witness ==
    /\ ~IS_TAURI
    /\ request[1] = request[2]
    /\ outcome[1].kind = "rejected" /\ response[1].net = "failed"
    /\ outcome[2].kind = "resolved"
    /\ invokes = 2 /\ posts = 2

\* What a call's own answer makes of it.
OwnOutcome(i) ==
    IF IS_TAURI THEN ipc[i]
    ELSE IF response[i].net = "failed"
    THEN Rejected(ErrorObj("TypeError", "Failed to fetch"))
    ELSE IF response[i].status \notin 200..299
    THEN Rejected(ErrorObj("Error",
            "RPC call failed: " \o ToString(response[i].status)))
    ELSE IF ~response[i].parses
    THEN Rejected(ErrorObj("SyntaxError", "Unexpected token"))
    ELSE Normalize(response[i].json)

\* C10: concurrent calls are independent: a settled call's outcome is decided
\* by its own answer alone, and a call whose awaited answer has arrived can
\* continue whatever the other calls are doing or have failed with.
C10_CallsIndependent ==
    \A i \in CallIds :
        /\ pc[i] = "settled" => outcome[i] = OwnOutcome(i)
        /\ pc[i] = "returned" => ENABLED AfterChannel(i)
        /\ pc[i] = "fetched" => ENABLED AfterFetch(i)
        /\ pc[i] = "read" => ENABLED AfterJson(i)

C10_Witness ==
    /\ pc[1] = "fetch"
    /\ pc[2] = "settled" /\ outcome[2].kind = "resolved"

\* C11: networked, listen registers nothing and resolves to a function that
\* can be called any number of times without throwing; the handler is never
\* invoked, also after emit was called with the same event name.
C11_WebListenIsNoOp ==
    ~IS_TAURI =>
        \A s \in SubIds :
            /\ ~subs[s].native
            /\ ~subs[s].threw
            /\ inflight[s] = 0
            /\ handled[s] = 0

C11_Witness ==
    \E s \in SubIds :
        /\ ~IS_TAURI
        /\ subs[s].state = "unlistened" /\ subs[s].unlistens = 2
        /\ \E k \in 1..Len(emits) : emits[k] = subs[s].event
        /\ handled[s] = 0

\* C13: networked, readTextFile, writeTextFile, readFile, writeFile and mkdir
\* each reject with a distinct UnsupportedCapabilityError, never a generic
\* error and never an empty success.
C13_FsRejectsUnsupported ==
    (capability.by = "web" /\ capability.op \in FsOps) =>
        /\ capability.result.kind = "rejected"
        /\ capability.result.value.val.ty = "UnsupportedCapabilityError"

\* C14: networked, joinPath called with zero arguments resolves to the empty
\* string.
C14_NoSegmentsGiveEmpty ==
    (pathCall.by = "web" /\ Len(pathCall.args) = 0) => pathCall.result = <<>>

C14_Witness ==
    pathCall.by = "web" /\ pathCall.args = <<>> /\ pathCall.result = <<>>

\* The positions of p that hold something else than a slash.
Solid(p) == {k \in 1..Len(p) : p[k] # "/"}

Least(S) == CHOOSE k \in S : \A j \in S : k <= j

Greatest(S) == CHOOSE k \in S : \A j \in S : k >= j

\* The reference trimming of segment i: the first segment loses its trailing
\* slashes, every other segment its leading and trailing ones.
RefTrim(p, i) ==
    IF Solid(p) = {} THEN <<>>
    ELSE SubSeq(p, IF i = 1 THEN 1 ELSE Least(Solid(p)), Greatest(Solid(p)))

RECURSIVE RefFold(_, _, _)
\* The reference join, left to right: a segment that is empty once trimmed is
\* skipped, every other one is appended after a single slash.
RefFold(paths, i, acc) ==
    IF i > Len(paths) THEN acc
    ELSE LET seg == RefTrim(paths[i], i)
         IN  RefFold(paths, i + 1,
                     IF seg = <<>> THEN acc
                     ELSE IF acc = <<>> THEN seg
                     ELSE acc \o <<"/">> \o seg)

RefJoin(paths) == RefFold(paths, 1, <<>>)

\* C15: networked, joinPath equals the reference join on every list of
\* segments: trailing slashes stripped from the first segment, leading and
\* trailing slashes from every other, empty segments dropped, the rest joined
\* with a single '/'; joinPath("a/", "/b/", "c/") is "a/b/c".
C15_EqualsReferenceJoin ==
    pathCall.by = "web" =>
        /\ pathCall.result = RefJoin(pathCall.args)
        /\ pathCall.args = << <<"a", "/">>, <<"/", "b", "/">>, <<"c", "/">> >>
              => pathCall.result = <<"a", "/", "b", "/", "c">>

C15_Witness ==
    /\ pathCall.by = "web"
    /\ pathCall.args = << <<"a", "/">>, <<"/", "b", "/">>, <<"c", "/">> >>
    /\ pathCall.result = <<"a", "/", "b", "/", "c">>

\* C16: networked, joinPath drops empty segments and keeps the leading slash
\* of the first segment: whenever the first segment starts with '/', so does
\* the result, also when the first segment is made only of slashes.
C16_LeadingSlashKept ==
    (/\ pathCall.by = "web"
     /\ Len(pathCall.args) > 0
     /\ Len(pathCall.args[1]) > 0
     /\ pathCall.args[1][1] = "/") =>
        /\ Len(pathCall.result) > 0
        /\ pathCall.result[1] = "/"

\* The window regained focus and no change notification has come.
FocusOnly == dlg.by = "web" /\ dlg.timer # "none" /\ ~dlg.changed

\* C17: networked openDialog, no file chosen and the window regaining focus
\* at time t: the promise is pending at every instant before t + 300 ms, and
\* resolves null, through the settle timer, once that window has elapsed.
C17_NullAfterSettleWindow ==
    /\ [](FocusOnly =>
            /\ now < dlg.focusAt + SETTLE_DELAY => dlg.promise = DialogPending
            /\ dlg.promise # DialogPending =>
                  /\ dlg.promise = DialogNull
                  /\ dlg.timer = "fired"
                  /\ now >= dlg.focusAt + SETTLE_DELAY
            /\ dlg.timer = "fired" => dlg.promise = DialogNull)
    /\ [](dlg.by = "web" /\ dlg.timer = "none" /\ ~dlg.changed
            => dlg.promise = DialogPending)
    /\ (FocusOnly /\ dlg.focusAt + SETTLE_DELAY <= Horizon)
          ~> (dlg.changed \/ dlg.promise = DialogNull)

\* The scenario of the specification: focus after 50 ms, null at 350 ms.
C17_Witness ==
    /\ FocusOnly
    /\ dlg.focusAt = 50
    /\ now = 350
    /\ dlg.promise = DialogNull

\* C18: networked openDialog, once the change notification has come the
\* promise holds file names, never paths: every selected name when
\* options.multiple is true, else the first selected name; null when the
\* notification carried no files.
C18_ChangeResolvesNames ==
    (dlg.by = "web" /\ dlg.changed) =>
        dlg.promise =
            IF Len(dlg.files) = 0 THEN DialogNull
            ELSE IF dlg.multiple
                 THEN DialogResult("names",
                                   [i \in 1..Len(dlg.files) |-> dlg.files[i].name])
                 ELSE DialogResult("name", <<dlg.files[1].name>>)

\* C19: networked, saveDialog resolves null for every options value, without
\* handing anything to a host dialog and without throwing.
C19_WebSaveDialogNull ==
    capability.op = "saveDialog" =>
        /\ capability.by = (IF IS_TAURI THEN "tauri" ELSE "web")
        /\ capability.by = "web" => capability.result = Resolved(Bare(Null))

C19_Witness ==
    /\ ~IS_TAURI
    /\ capability.op = "saveDialog" /\ capability.arg = "report.csv"
    /\ capability.result = Resolved(Bare(Null))

\* The implementation the calls made so far went to.
BranchTaken ==
    /\ \A i \in CallIds :
          wire[i].via \in {"none", IF IS_TAURI THEN "ipc" ELSE "POST"}
    /\ \A s \in SubIds :
          /\ subs[s].state = "listening" => subs[s].native = IS_TAURI
          /\ inflight[s] > 0 => IS_TAURI
    /\ capability.by \in {"none", IF IS_TAURI THEN "tauri" ELSE "web"}

\* C20: the environment fact is computed once: IS_TAURI never changes, IS_WEB
\* is always its negation, and every invoke, listen, emit and capability call
\* takes the branch IS_TAURI names, also after the host marker appeared on or
\* disappeared from the window.
C20_EnvironmentFactFixed ==
    /\ [][IS_TAURI' = IS_TAURI /\ IS_WEB' = IS_WEB]_vars
    /\ [](IS_WEB = ~IS_TAURI)
    /\ []BranchTaken

C20_Witness ==
    /\ hostMarker /\ ~IS_TAURI
    /\ wire[1].via = "POST"
    /\ capability.by = "web"
    /\ \E s \in SubIds : subs[s].state = "listening" /\ ~subs[s].native

\* The exchange of call i failed: the request failed on the network, the
\* status is not 2xx, the body is no JSON, or the command reported a failure
\* (a truthy error marker or success === false).
Failed(i) ==
    \/ response[i].net = "failed"
    \/ response[i].net = "ok" /\ response[i].status \notin 200..299
    \/ response[i].net = "ok" /\ ~response[i].parses
    \/ /\ response[i].net = "ok" /\ response[i].parses
       /\ \/ Truthy(response[i].json.error)
          \/ response[i].json.success = False

\* C21: networked, every failure of a call (network failure, unparseable
\* body, non-2xx status, command-reported failure) makes invoke reject; it is
\* never turned into a resolved value and the request is not issued again.
C21_FailuresReject ==
    \A i \in CallIds :
        (~IS_TAURI /\ Failed(i)) =>
            /\ outcome[i].kind # "resolved"
            /\ pc[i] = "settled" => outcome[i].kind = "rejected"
            /\ posts <= invokes

C21_Witness ==
    \E i \in CallIds :
        /\ ~IS_TAURI
        /\ pc[i] = "settled"
        /\ response[i].net = "ok" /\ response[i].status = 200
        /\ ~response[i].parses
        /\ outcome[i].kind = "rejected"
        /\ outcome[i].value.val.ty = "SyntaxError"

\* C22: networked openDialog, whatever the order of and the delay between the
\* focus event and the change notification, a call in which at least one file
\* was selected never resolves null: its settled value is the selection.
C22_SelectionNeverNull ==
    (dlg.by = "web" /\ dlg.picker = "chosen" /\ Len(dlg.files) > 0) =>
        /\ dlg.promise # DialogNull
        /\ dlg.promise.kind \in {"name", "names"}
        /\ dlg.promise.names[1] = dlg.files[1].name

\* C23: networked openDialog, once the picker has been dismissed, by a
\* selection or by a cancel, the promise eventually resolves.
C23_EventuallyResolves ==
    (dlg.by = "web" /\ dlg.picker \in {"chosen", "cancelled"})
        ~> (dlg.promise # DialogPending)

\* C24: the normaliser that tests `result.error` and `result.success ===
\* false` in two statements and the one that tests them in one condition
\* agree on every response body: both reject with the same message or both
\* resolve to the same value, which is the outcome of the call.
C24_NormalizersAgree ==
    \A i \in CallIds :
        Got2xxJson(i) =>
            /\ NormalizeSplit(response[i].json) = Normalize(response[i].json)
            /\ pc[i] = "settled" => outcome[i] = NormalizeSplit(response[i].json)

C24_Witness ==
    \E i \in CallIds :
        /\ Got2xxJson(i)
        /\ pc[i] = "settled"
        /\ response[i].json = Json(Quote, EmptyStr, False, Five)
        /\ outcome[i] = Rejected(NewError(Str("Unknown error")))
        /\ NormalizeSplit(response[i].json) = outcome[i]

\* The segments that remain in the result, by the reference trimming.
Kept(paths) ==
    SelectSeq([i \in 1..Len(paths) |-> RefTrim(paths[i], i)],
              LAMBDA p : p # <<>>)

RECURSIVE TotalLen(_)
TotalLen(segs) ==
    IF segs = <<>> THEN 0 ELSE Len(segs[1]) + TotalLen(Tail(segs))

\* Where, in the joined string, the separator after the j-th kept segment is.
JoinPoint(segs, j) == TotalLen(SubSeq(segs, 1, j)) + j

\* C25: networked, for every list of segments the result of joinPath does not
\* end with '/', and at every join point the two segments are separated by
\* exactly one '/': the characters on both sides of the separator are no
\* slashes, whatever slashes the inputs carried at their ends.
C25_NoTrailingNoDoubleSlash ==
    pathCall.by = "web" =>
        LET res  == pathCall.result
            segs == Kept(pathCall.args)
        IN  /\ res # <<>> => res[Len(res)] # "/"
            /\ Len(res) = TotalLen(segs) + (IF segs = <<>> THEN 0 ELSE Len(segs) - 1)
            /\ \A j \in 1..(Len(segs) - 1) :
                  /\ res[JoinPoint(segs, j)] = "/"
                  /\ res[JoinPoint(segs, j) - 1] # "/"
                  /\ res[JoinPoint(segs, j) + 1] # "/"

C25_Witness ==
    /\ pathCall.by = "web"
    /\ pathCall.args = << <<"/", "/", "a", "/", "a", "/", "/">>,
                          <<"/", "/", "a", "/", "/", "a", "/">>, <<"/">> >>
    /\ pathCall.result = <<"/", "/", "a", "/", "a", "/", "a", "/", "/", "a">>

\* The live timers of one kind.
Live(kind) == {t \in timers : t.kind = kind}

\* This step is a rotation of the mounted component.
Rotates == mounted /\ \E t \in timers : RotationFires(t)

\* C26: WarRoomMode, after any sequence of mounts, mouse moves, toggles,
\* view switches and rotation ticks at most one rotation interval is live,
\* none is live while the carousel is inactive or after unmount, and a view
\* is not advanced twice within one rotation period.
C26_OneRotationTimer ==
    /\ [](Cardinality(Live("rotation")) <= 1)
    /\ []((~mounted \/ ~(carouselEnabled /\ ~userActive))
            => (Live("rotation") = {} /\ Live("progress") = {}))
    /\ [][Rotates => sinceRotation \in {-1, DEFAULT_ROTATION_INTERVAL}]_vars

C26_Witness ==
    /\ mounted
    /\ activeView = "news"
    /\ sinceRotation = 0
    /\ sinceMove = IDLE_TIMEOUT
    /\ Cardinality(Live("rotation")) = 1

\* The fixed cycle of the views.
Successor(v) ==
    CASE v = "dashboard" -> "markets"
      [] v = "markets"   -> "news"
      [] v = "news"      -> "chat"
      [] v = "chat"      -> "dashboard"

\* C27: WarRoomMode, an automatic rotation happens only while the carousel
\* is enabled and the user is not active, and moves the active view to its
\* successor in dashboard -> markets -> news -> chat -> dashboard; the active
\* view is always one of the four and exactly one view is displayed.
C27_RotationFollowsCycle ==
    /\ [][Rotates => /\ carouselEnabled /\ ~userActive
                     /\ activeView' = Successor(activeView)]_vars
    /\ [](activeView \in {"dashboard", "markets", "news", "chat"})
    /\ [](Cardinality({i \in 1..Len(VIEWS) : Display(VIEWS[i]) = "block"}) = 1)

C27_Witness ==
    /\ mounted
    /\ carouselEnabled /\ ~userActive
    /\ activeView = "dashboard"
    /\ sinceRotation = 0
    /\ sinceMove = -1

\* C28: WarRoomMode, the progress value stays within 0..100, and it is set
\* to 0 by every rotation, by every carousel toggle, and by every view change
\* or activation while the carousel is active.
C28_ProgressBounded ==
    /\ [](progress >= 0 /\ progress <= 3 * 100)
    /\ [][Rotates => progress' = 0]_vars
    /\ [][(mounted /\ mounted' /\ carouselEnabled' # carouselEnabled)
             => progress' = 0]_vars
    /\ [][(/\ mounted /\ mounted'
           /\ carouselEnabled' /\ ~userActive'
           /\ \/ activeView' # activeView
              \/ ~(carouselEnabled /\ ~userActive))
             => progress' = 0]_vars

C28_Witness ==
    /\ mounted
    /\ carouselEnabled /\ ~userActive
    /\ progress = 3 * 100
    /\ Live("progress") # {}

\* C29: WarRoomMode, every mouse move marks the user active and restarts the
\* idle countdown: the user is inactive only when 5 seconds have passed since
\* the last mouse move; at most one idle timer is pending, none after unmount.
C29_IdleAfterFiveSeconds ==
    /\ []((mounted /\ sinceMove >= 0 /\ sinceMove < 5000) => userActive)
    /\ [](Cardinality(Live("idle")) <= 1)
    /\ [](~mounted => Live("idle") = {})
    /\ [][HandleMouseMove =>
            /\ userActive'
            /\ \E t \in timers' : t.kind = "idle" /\ t.left = 5000]_vars

C29_Witness ==
    /\ mounted
    /\ ~userActive
    /\ sinceMove = 5000
    /\ Live("idle") = {}

\* The view each number key stands for.
KeyTable ==
    "1" :> "dashboard" @@ "2" :> "markets" @@ "3" :> "news" @@ "4" :> "chat"

\* C30: WarRoomMode, a key press whose target is an input, a textarea or a
\* content-editable element changes neither the active view nor the carousel
\* switch; Escape sets the interface mode to terminal whatever the target;
\* elsewhere keys 1-4 select dashboard, markets, news, chat and Space toggles
\* the carousel.
C30_KeysRespectInputs ==
    [][\A key \in Keys, target \in Targets :
          HandleKeyDown(key, target) =>
            LET typing == \/ target.tagName \in {"INPUT", "TEXTAREA"}
                          \/ target.isContentEditable
            IN  /\ typing => /\ activeView' = activeView
                             /\ carouselEnabled' = carouselEnabled
                /\ key = "Escape" => mode' = "terminal"
                /\ (~typing /\ key \in DOMAIN KeyTable)
                      => activeView' = KeyTable[key]
                /\ (~typing /\ key = " ")
                      => carouselEnabled' = ~carouselEnabled]_vars

C30_Witness ==
    /\ mounted
    /\ mode = "terminal"
    /\ activeView = "chat"
    /\ ~carouselEnabled
    /\ sinceRotation = -1

====
